---- MODULE Spec2Model ----
(***************************************************************************)
(* AQI prediction pipeline of app1.py: the breakpoint tables and           *)
(* calculate_sub_index, the category ladder of predict_aqi, get_health_tip *)
(* and the predict button's handler.                                       *)
(*                                                                         *)
(* Concentrations are fixed-point numbers.  The table of a pollutant is    *)
(* written in table units (the source's integers; tenths of a mg/m3 for    *)
(* CO, whose table is written with one decimal), and a concentration is a  *)
(* whole number of 1/SubDiv table units: tenths for the integer-bounded    *)
(* tables and hundredths for CO when SubDiv = 10.                          *)
(***************************************************************************)
EXTENDS Integers, Sequences, FiniteSets, TLC

\* Grid steps per table unit.
SubDiv == 10
\* Grid steps the concentrations extend below 0 and above a table's maximum.
Margin == 20
\* Largest increase of the concentration between two successive evaluations.
MaxStep == 2
\* Largest AQI value handed to the threshold ladders on their own.
MaxAqi == 520

\* app1.py:14
pollutants == <<"PM2.5", "PM10", "NO2", "NH3", "SO2", "CO", "O3">>

Pollutants == {pollutants[j] : j \in 1..Len(pollutants)}

\* app1.py:18-26; each entry is <<low, high, index_low, index_high>>.  The CO
\* row is in tenths: (1.1, 2.0, 51, 100) is <<11, 20, 51, 100>>.
breakpoints ==
    ("PM2.5" :> << <<0,30,0,50>>, <<31,60,51,100>>, <<61,90,101,200>>,
                   <<91,120,201,300>>, <<121,250,301,400>>, <<251,500,401,500>> >>) @@
    ("PM10"  :> << <<0,50,0,50>>, <<51,100,51,100>>, <<101,250,101,200>>,
                   <<251,350,201,300>>, <<351,430,301,400>>, <<431,600,401,500>> >>) @@
    ("NO2"   :> << <<0,40,0,50>>, <<41,80,51,100>>, <<81,180,101,200>>,
                   <<181,280,201,300>>, <<281,400,301,400>>, <<401,1000,401,500>> >>) @@
    ("NH3"   :> << <<0,200,0,50>>, <<201,400,51,100>>, <<401,800,101,200>>,
                   <<801,1200,201,300>>, <<1201,1800,301,400>>, <<1801,2400,401,500>> >>) @@
    ("SO2"   :> << <<0,40,0,50>>, <<41,80,51,100>>, <<81,380,101,200>>,
                   <<381,800,201,300>>, <<801,1600,301,400>>, <<1601,2000,401,500>> >>) @@
    ("CO"    :> << <<0,10,0,50>>, <<11,20,51,100>>, <<21,100,101,200>>,
                   <<101,170,201,300>>, <<171,340,301,400>>, <<341,500,401,500>> >>) @@
    ("O3"    :> << <<0,50,0,50>>, <<51,100,51,100>>, <<101,168,101,200>>,
                   <<169,208,201,300>>, <<209,748,301,400>>, <<749,1000,401,500>> >>)

\* The bounds of a range in grid steps.
Low(bp) == bp[1] * SubDiv

High(bp) == bp[2] * SubDiv

\* A range test that excludes the lower end.
InRangeOpenLow(bp, value) == Low(bp) < value /\ value <= High(bp)

\* app1.py:29, the test `low <= value <= high`.
InRange(bp, value) == Low(bp) <= value /\ value <= High(bp)

\* No value: the name is unbound in the program (nothing was returned).
NoValue == 0 - 1

\* app1.py:30, round(): Python rounds the double it is given to the nearest
\* integer, a half to the even neighbour.  n/d is the exact quotient; the
\* double computed by line 30 differs from it by a few units in the last place,
\* which decides nothing unless n/d is exactly a half: there the double may fall
\* on either side, so both neighbours are possible results.
RoundResults(n, d) ==
    LET q == n \div d
        r == n % d
    IN  IF 2 * r < d THEN {q}
        ELSE IF 2 * r > d THEN {q + 1}
        ELSE {q, q + 1}

\* app1.py:30, the return inside the range bp:
\* round(((index_high - index_low)/(high - low)) * (value - low) + index_low),
\* or ZeroDivisionError when high = low.
Interpolate(bp, value) ==
    IF High(bp) = Low(bp)
    THEN {[ret |-> NoValue, line |-> 30, exc |-> "ZeroDivisionError"]}
    ELSE {[ret |-> r, line |-> 30, exc |-> ""] :
            r \in RoundResults((bp[4] - bp[3]) * (value - Low(bp))
                                 + bp[3] * (High(bp) - Low(bp)),
                               High(bp) - Low(bp))}

RECURSIVE ScanFrom(_, _, _)
\* app1.py:27-31, the loop over the ranges from the k-th on: the first range
\* that holds the value decides (line 30), and no range at all gives 0
\* (line 31).
ScanFrom(table, value, k) ==
    IF k > Len(table) THEN {[ret |-> 0, line |-> 31, exc |-> ""]}
    ELSE IF InRange(table[k], value) THEN Interpolate(table[k], value)
    ELSE ScanFrom(table, value, k + 1)

RECURSIVE ScanFromOpenLow(_, _, _)
\* The loop with a range test that excludes the lower end of each range.
ScanFromOpenLow(table, value, k) ==
    IF k > Len(table) THEN {[ret |-> 0, line |-> 31, exc |-> ""]}
    ELSE IF InRangeOpenLow(table[k], value) THEN Interpolate(table[k], value)
    ELSE ScanFromOpenLow(table, value, k + 1)

\* calculate_sub_index with `low < value <= high` as its range test.
calculate_sub_index_open_low(pollutant, value) ==
    ScanFromOpenLow(breakpoints[pollutant], value, 1)

\* A range-miss policy that clamps to the top of the scale instead of 0.
calculate_sub_index_clamp(pollutant, value) ==
    LET table == breakpoints[pollutant]
    IN  IF \E k \in 1..Len(table) : InRange(table[k], value)
        THEN ScanFrom(table, value, 1)
        ELSE {[ret |-> table[Len(table)][4], line |-> 31, exc |-> ""]}

\* A range-miss policy that extends the last range beyond its end.
calculate_sub_index_extrapolate(pollutant, value) ==
    LET table == breakpoints[pollutant]
    IN  IF value > High(table[Len(table)])
        THEN Interpolate(table[Len(table)], value)
        ELSE ScanFrom(table, value, 1)

\* app1.py:17-31: the outcomes calculate_sub_index can have, each the value
\* returned, the line that returned it and the exception raised ("" for none).
calculate_sub_index(pollutant, value) ==
    ScanFrom(breakpoints[pollutant], value, 1)

\* app1.py:27-29: the ranges of the pollutant's table that hold the value.
MatchingRanges(pollutant, value) ==
    {k \in 1..Len(breakpoints[pollutant]) : InRange(breakpoints[pollutant][k], value)}

\* The highest concentration a table covers, in grid steps.
TableMax(pollutant) ==
    High(breakpoints[pollutant][Len(breakpoints[pollutant])])

\* The concentrations calculate_sub_index is evaluated on.
Grid(pollutant) == (0 - Margin) .. (TableMax(pollutant) + Margin)

\* A ladder whose bounds are exclusive.
CategoryExclusive(q) ==
    IF q < 50 THEN "Good"
    ELSE IF q < 100 THEN "Satisfactory"
    ELSE IF q < 200 THEN "Moderate"
    ELSE IF q < 300 THEN "Poor"
    ELSE IF q < 400 THEN "Very Poor"
    ELSE "Severe"

\* app1.py:68-79, the category ladder of predict_aqi.
Category(q) ==
    IF q <= 50 THEN "Good"
    ELSE IF q <= 100 THEN "Satisfactory"
    ELSE IF q <= 200 THEN "Moderate"
    ELSE IF q <= 300 THEN "Poor"
    ELSE IF q <= 400 THEN "Very Poor"
    ELSE "Severe"

\* A tip ladder that has drifted from the category ladder at one threshold.
get_health_tip_drifted(q) ==
    IF q <= 50 THEN
        [emoji |-> "U+1F33F", label |-> "Good",
         advice |-> "Air quality is ideal. No precautions needed."]
    ELSE IF q <= 150 THEN
        [emoji |-> "U+1F60A", label |-> "Satisfactory",
         advice |-> "Acceptable air quality. Sensitive individuals should avoid outdoor exertion."]
    ELSE IF q <= 200 THEN
        [emoji |-> "U+1F610", label |-> "Moderate",
         advice |-> "Consider limiting prolonged outdoor exertion."]
    ELSE IF q <= 300 THEN
        [emoji |-> "U+1F637", label |-> "Poor",
         advice |-> "People with heart/lung disease, children and older adults should reduce prolonged outdoor exertion."]
    ELSE IF q <= 400 THEN
        [emoji |-> "U+1F6AB", label |-> "Very Poor",
         advice |-> "Everyone should avoid outdoor physical activity."]
    ELSE
        [emoji |-> "U+1F6D1", label |-> "Severe",
         advice |-> "Avoid all outdoor activity. Use air purifiers indoors."]

\* app1.py:33-45.  The string returned is an emoji (named here by its code
\* point), a space, the severity label, a colon and the advice.
get_health_tip(q) ==
    IF q <= 50 THEN
        [emoji |-> "U+1F33F", label |-> "Good",
         advice |-> "Air quality is ideal. No precautions needed."]
    ELSE IF q <= 100 THEN
        [emoji |-> "U+1F60A", label |-> "Satisfactory",
         advice |-> "Acceptable air quality. Sensitive individuals should avoid outdoor exertion."]
    ELSE IF q <= 200 THEN
        [emoji |-> "U+1F610", label |-> "Moderate",
         advice |-> "Consider limiting prolonged outdoor exertion."]
    ELSE IF q <= 300 THEN
        [emoji |-> "U+1F637", label |-> "Poor",
         advice |-> "People with heart/lung disease, children and older adults should reduce prolonged outdoor exertion."]
    ELSE IF q <= 400 THEN
        [emoji |-> "U+1F6AB", label |-> "Very Poor",
         advice |-> "Everyone should avoid outdoor physical activity."]
    ELSE
        [emoji |-> "U+1F6D1", label |-> "Severe",
         advice |-> "Avoid all outdoor activity. Use air purifiers indoors."]

\* The severity label that begins a tip's text.
TipLabel(t) == t.label

NoTip == [emoji |-> "", label |-> "", advice |-> ""]

\* An empty dict.
EmptyDict == [p \in {} |-> 0]

\* Position of a pollutant in the list of line 14.
PollutantIndex(pollutant) ==
    CHOOSE j \in 1..Len(pollutants) : pollutants[j] = pollutant

\* The range of its table a pollutant's model is sampled in: a different one
\* from pollutant to pollutant, so that every category occurs.
SampleRange(pollutant) ==
    breakpoints[pollutant][(PollutantIndex(pollutant) % Len(breakpoints[pollutant])) + 1]

\* What models[pollutant].predict(features)[0] (line 65) may evaluate to: a
\* negative concentration, one in the gap after the first range, a fractional
\* one inside the sampled range, that range's upper end, the table's maximum
\* and one above it.
ModelOutputs(pollutant) ==
    LET table == breakpoints[pollutant]
        bp == SampleRange(pollutant)
    IN  { 0 - Margin,
          High(table[1]) + (SubDiv \div 2),
          Low(bp) + ((High(bp) - Low(bp)) \div 3),
          High(bp),
          TableMax(pollutant) + Margin }

\* The dicts the pickle file may hold: a model for every pollutant, or for
\* all but one.
ModelDicts == {Pollutants} \cup {Pollutants \ {p} : p \in Pollutants}

\* max() of a non-empty collection.
MaxOf(S) == CHOOSE m \in S : \A x \in S : m >= x

RECURSIVE SumOver(_, _)
SumOver(sub, D) ==
    IF D = {} THEN 0
    ELSE LET p == CHOOSE q \in D : TRUE IN sub[p] + SumOver(sub, D \ {p})

\* An aggregation that adds the sub-indices up.
AggregateAqiSum(sub) == SumOver(sub, DOMAIN sub)

\* app1.py:67, aqi = max(sub_indices.values()).
AggregateAqi(sub) == MaxOf({sub[p] : p \in DOMAIN sub})

RECURSIVE SubIndexDicts(_, _)
\* app1.py:66, the dict comprehension over the first n pollutants of the loop
\* order that are in pred: every dict of outcomes it can build.
SubIndexDicts(pred, n) ==
    IF n = 0 THEN {EmptyDict}
    ELSE LET p == pollutants[n]
         IN  IF p \notin DOMAIN pred THEN SubIndexDicts(pred, n - 1)
             ELSE {(p :> o) @@ m : o \in calculate_sub_index(p, pred[p]),
                                   m \in SubIndexDicts(pred, n - 1)}

VARIABLES
    models,       \* the pollutants the unpickled dict has a model for
    pc,           \* "idle", "loop", "returned", "shown", "raised"
    i,            \* position of the loop of line 64 in pollutants
    predicted,    \* predict_aqi's local dict: pollutant -> concentration
    sub_indices,  \* the caller's sub_indices (line 111), empty until returned
    aqi,          \* the caller's aqi, NoValue until returned
    category,     \* the caller's category, "" until returned
    ret,          \* what predict_aqi returned: <<>> or the 4-tuple of line 80
    err,          \* the exception that ended the handler, "" for none
    tip,          \* line 118
    sp,      \* calculate_sub_index alone: its pollutant argument
    sv,      \*   its value argument, in grid steps
    spc,     \*   "input" before the call, "done" after it
    sres,    \*   the value returned (NoValue before the call or on a raise)
    sline,   \*   the line that returned it: 30 or 31 (0 before the call)
    sexc,    \*   the exception raised, "" for none
    lq,      \* the threshold ladders alone: the aqi argument
    lpc,     \*   "input", then "category", then "tip"
    lcat,    \*   the category of lines 68-79
    ltip     \*   the result of get_health_tip

mainVars ==
    <<models, pc, i, predicted, sub_indices, aqi, category, ret, err, tip>>

subVars == <<sp, sv, spc, sres, sline, sexc>>

ladderVars == <<lq, lpc, lcat, ltip>>

vars == <<mainVars, subVars, ladderVars>>

SubIdle ==
    sp = "PM2.5" /\ sv = 0 /\ spc = "idle" /\ sres = NoValue /\ sline = 0 /\ sexc = ""

LadderIdle == lq = 0 /\ lpc = "idle" /\ lcat = "" /\ ltip = NoTip

MainIdle ==
    /\ models = Pollutants /\ pc = "off" /\ i = 0 /\ predicted = EmptyDict
    /\ sub_indices = EmptyDict /\ aqi = NoValue /\ category = ""
    /\ ret = <<>> /\ err = "" /\ tip = NoTip

\* ---- calculate_sub_index on its own ----------------------------------

SubInit ==
    /\ sp \in Pollutants
    /\ sv \in Grid(sp)
    /\ spc = "input"
    /\ sres = NoValue
    /\ sline = 0
    /\ sexc = ""

\* app1.py:17-31, one call calculate_sub_index(sp, sv).
SubIndexCall ==
    /\ spc = "input"
    /\ spc' = "done"
    /\ \E o \in calculate_sub_index(sp, sv) :
          sres' = o.ret /\ sline' = o.line /\ sexc' = o.exc
    /\ UNCHANGED <<sp, sv>>

\* app1.py:17-31, the call repeated for the same pollutant at a higher
\* concentration.
SubIndexCallHigher ==
    /\ spc = "done"
    /\ \E c \in (sv + 1) .. (sv + MaxStep) :
          /\ c \in Grid(sp)
          /\ sv' = c
          /\ \E o \in calculate_sub_index(sp, c) :
                sres' = o.ret /\ sline' = o.line /\ sexc' = o.exc
    /\ UNCHANGED <<sp, spc>>

\* ---- the threshold ladders on their own -------------------------------

LadderInit ==
    /\ lq \in 0..MaxAqi
    /\ lpc = "input"
    /\ lcat = ""
    /\ ltip = NoTip

\* app1.py:68-79 applied to lq.
LadderCategory ==
    /\ lpc = "input"
    /\ lcat' = Category(lq)
    /\ lpc' = "category"
    /\ UNCHANGED <<lq, ltip>>

\* app1.py:118 applied to the same aqi.
LadderTip ==
    /\ lpc = "category"
    /\ ltip' = get_health_tip(lq)
    /\ lpc' = "tip"
    /\ UNCHANGED <<lq, lcat>>

\* ---- the predict button's handler -----------------------------------------

Init ==
    /\ models \in ModelDicts
    /\ pc = "idle"
    /\ i = 0
    /\ predicted = EmptyDict
    /\ sub_indices = EmptyDict
    /\ aqi = NoValue
    /\ category = ""
    /\ ret = <<>>
    /\ err = ""
    /\ tip = NoTip
    /\ SubIdle
    /\ LadderIdle

\* app1.py:109-111 and 62-63: the button is pressed, predict_aqi is entered,
\* the features are built and predicted = {}.
Click ==
    /\ pc = "idle"
    /\ pc' = "loop"
    /\ i' = 1
    /\ predicted' = EmptyDict
    /\ UNCHANGED <<models, sub_indices, aqi, category, ret, err, tip>>

\* A loop that skips a pollutant that has no model.
PredictMissingSkips ==
    /\ pc = "loop"
    /\ i <= Len(pollutants)
    /\ pollutants[i] \notin models
    /\ i' = i + 1
    /\ UNCHANGED <<models, pc, predicted, sub_indices, aqi, category, ret, err, tip>>

\* app1.py:65, models[pollutant] for a pollutant the dict lacks: KeyError
\* leaves predict_aqi and the handler; nothing is returned.
PredictMissing ==
    /\ pc = "loop"
    /\ i <= Len(pollutants)
    /\ pollutants[i] \notin models
    /\ pc' = "raised"
    /\ err' = "KeyError"
    /\ UNCHANGED <<models, i, predicted, sub_indices, aqi, category, ret, tip>>

\* app1.py:65, the model's predict raises: the exception leaves predict_aqi.
PredictRaises ==
    /\ pc = "loop"
    /\ i <= Len(pollutants)
    /\ pollutants[i] \in models
    /\ pc' = "raised"
    /\ err' = "PredictError"
    /\ UNCHANGED <<models, i, predicted, sub_indices, aqi, category, ret, tip>>

\* app1.py:64-65, one iteration: the model's prediction is stored.
PredictOk ==
    /\ pc = "loop"
    /\ i <= Len(pollutants)
    /\ pollutants[i] \in models
    /\ \E v \in ModelOutputs(pollutants[i]) :
          predicted' = (pollutants[i] :> v) @@ predicted
    /\ i' = i + 1
    /\ UNCHANGED <<models, pc, sub_indices, aqi, category, ret, err, tip>>

\* app1.py:66-80 and 111: after the loop the sub-indices, the aqi and the
\* category are computed, returned and bound in the caller.  An exception of
\* calculate_sub_index, or max() of an empty dict, leaves the handler instead.
Aggregate ==
    /\ pc = "loop"
    /\ i > Len(pollutants)
    /\ \E outcomes \in SubIndexDicts(predicted, Len(pollutants)) :
          LET failed == {p \in DOMAIN outcomes : outcomes[p].exc # ""}
              sub == [p \in DOMAIN outcomes |-> outcomes[p].ret]
          IN  IF failed # {}
              THEN /\ pc' = "raised"
                   /\ err' = outcomes[CHOOSE p \in failed : TRUE].exc
                   /\ UNCHANGED <<sub_indices, aqi, category, ret>>
              ELSE IF DOMAIN sub = {}
              THEN /\ pc' = "raised"
                   /\ err' = "ValueError"
                   /\ UNCHANGED <<sub_indices, aqi, category, ret>>
              ELSE /\ pc' = "returned"
                   /\ ret' = <<predicted, sub, AggregateAqi(sub),
                               Category(AggregateAqi(sub))>>
                   /\ sub_indices' = sub
                   /\ aqi' = AggregateAqi(sub)
                   /\ category' = Category(AggregateAqi(sub))
                   /\ err' = ""
    /\ UNCHANGED <<models, i, predicted, tip>>

\* app1.py:118-120, the health tip for the aqi just returned.
ShowTip ==
    /\ pc = "returned"
    /\ tip' = get_health_tip(aqi)
    /\ pc' = "shown"
    /\ UNCHANGED <<models, i, predicted, sub_indices, aqi, category, ret, err>>

\* The script is run again from the top on the next interaction: every name
\* of the previous run is gone.
Rerun ==
    /\ pc \in {"shown", "raised"}
    /\ pc' = "idle"
    /\ i' = 0
    /\ predicted' = EmptyDict
    /\ sub_indices' = EmptyDict
    /\ aqi' = NoValue
    /\ category' = ""
    /\ ret' = <<>>
    /\ err' = ""
    /\ tip' = NoTip
    /\ UNCHANGED models

Next ==
    \/ (Click /\ UNCHANGED <<subVars, ladderVars>>)
    \/ (PredictOk /\ UNCHANGED <<subVars, ladderVars>>)
    \/ (PredictMissing /\ UNCHANGED <<subVars, ladderVars>>)
    \/ (PredictRaises /\ UNCHANGED <<subVars, ladderVars>>)
    \/ (Aggregate /\ UNCHANGED <<subVars, ladderVars>>)
    \/ (ShowTip /\ UNCHANGED <<subVars, ladderVars>>)
    \/ (Rerun /\ UNCHANGED <<subVars, ladderVars>>)

Spec == Init /\ [][Next]_vars

SubNext ==
    \/ (SubIndexCall /\ UNCHANGED <<mainVars, ladderVars>>)
    \/ (SubIndexCallHigher /\ UNCHANGED <<mainVars, ladderVars>>)

SubIndexInit ==
    /\ SubInit
    /\ MainIdle
    /\ LadderIdle

SpecSubIndex == SubIndexInit /\ [][SubNext]_vars

LadderNext ==
    \/ (LadderCategory /\ UNCHANGED <<mainVars, subVars>>)
    \/ (LadderTip /\ UNCHANGED <<mainVars, subVars>>)

LadderOnlyInit ==
    /\ LadderInit
    /\ MainIdle
    /\ SubIdle

SpecLadder == LadderOnlyInit /\ [][LadderNext]_vars

\* ---- properties -------------------------------------------------------

Returned == pc \in {"returned", "shown"}

\* C1: the aqi predict_aqi returns is the maximum of the seven sub-indices it
\* returns, each of them a value of calculate_sub_index for the predicted
\* concentration: it is one of them and no smaller than any of them.
AqiIsMaxSubIndex ==
    Returned =>
        /\ DOMAIN ret[2] = Pollutants
        /\ \A p \in Pollutants :
              ret[2][p] \in {o.ret : o \in calculate_sub_index(p, ret[1][p])}
        /\ \E p \in Pollutants : ret[3] = ret[2][p]
        /\ \A p \in Pollutants : ret[3] >= ret[2][p]
        /\ aqi = ret[3]

\* A result whose maximum is held by one pollutant while another has a smaller
\* positive sub-index (so that the sum and the average differ from the maximum).
AqiIsMaxWitness ==
    /\ pc = "returned"
    /\ \E p, q \in Pollutants :
          /\ sub_indices[p] = aqi
          /\ 0 < sub_indices[q]
          /\ sub_indices[q] < aqi

\* C2 (as claimed): every concentration from 0 to the table's maximum lies in
\* exactly one range of its pollutant's table and is not a range miss.
ExactlyOneRange ==
    (spc = "done" /\ 0 <= sv /\ sv <= TableMax(sp)) =>
        /\ Cardinality(MatchingRanges(sp, sv)) = 1
        /\ sline = 30

\* C3 (as claimed): for one pollutant, a higher concentration never gets a
\* smaller sub-index.
SubIndexMonotone ==
    [][(spc = "done" /\ spc' = "done" /\ sp' = sp /\ sv' > sv) => sres' >= sres]_vars

\* C4: the category is decided by the aqi alone, in six buckets with inclusive
\* upper bounds 50, 100, 200, 300 and 400.
CategoryBuckets ==
    lpc \in {"category", "tip"} =>
        /\ lcat \in {"Good", "Satisfactory", "Moderate", "Poor", "Very Poor", "Severe"}
        /\ (lcat = "Good") = (lq \in 0..50)
        /\ (lcat = "Satisfactory") = (lq \in 51..100)
        /\ (lcat = "Moderate") = (lq \in 101..200)
        /\ (lcat = "Poor") = (lq \in 201..300)
        /\ (lcat = "Very Poor") = (lq \in 301..400)
        /\ (lcat = "Severe") = (lq > 400)

\* The ladder has classified 51, the first value above a bound.
CategoryBucketsWitness ==
    lpc = "category" /\ lq = 51 /\ lcat = "Satisfactory"

\* C5: at the upper end of a range calculate_sub_index returns the range's
\* index_high and at its lower end its index_low.
BoundaryExact ==
    spc = "done" =>
        \A k \in 1..Len(breakpoints[sp]) :
            LET bp == breakpoints[sp][k]
            IN  /\ sv = High(bp) => (sres = bp[4] /\ sexc = "")
                /\ sv = Low(bp) => (sres = bp[3] /\ sexc = "")

\* The call at the table's maximum has returned the last index_high.
BoundaryExactWitness ==
    /\ spc = "done"
    /\ sv = TableMax(sp)
    /\ sres = breakpoints[sp][Len(breakpoints[sp])][4]

\* C6: a concentration inside no range gives 0 by the final return, without
\* an exception, and a concentration inside a range never reaches that return.
RangeMissGivesZero ==
    spc = "done" =>
        /\ MatchingRanges(sp, sv) = {} => (sres = 0 /\ sline = 31 /\ sexc = "")
        /\ MatchingRanges(sp, sv) # {} => sline = 30

\* The call for a concentration above the table's maximum has returned.
RangeMissWitness ==
    spc = "done" /\ sv > TableMax(sp) /\ sres = 0 /\ sline = 31

\* C7: every sub-index and the aqi that predict_aqi returns are integers
\* from 0 to 500.
IndicesWithinScale ==
    Returned =>
        /\ \A p \in DOMAIN sub_indices : sub_indices[p] \in 0..500
        /\ aqi \in 0..500

\* A result computed from a negative concentration, one above its table and one
\* inside a range.
IndicesWithinScaleWitness ==
    /\ pc = "returned"
    /\ \E p, q, r \in Pollutants :
          /\ predicted[p] < 0
          /\ predicted[q] > TableMax(q)
          /\ MatchingRanges(r, predicted[r]) # {}
          /\ sub_indices[r] = aqi

\* C8: an exception leaves nothing bound in the caller, and a result is
\* returned only when every pollutant had a model and was predicted.
AllOrNothing ==
    /\ pc = "raised" =>
          /\ ret = <<>>
          /\ sub_indices = EmptyDict
          /\ aqi = NoValue
          /\ category = ""
    /\ models # Pollutants => ret = <<>>
    /\ ret # <<>> =>
          /\ err = ""
          /\ DOMAIN ret[1] = Pollutants
          /\ DOMAIN ret[2] = Pollutants

\* The loop has failed on a missing model after it predicted some pollutants.
AllOrNothingWitness ==
    /\ pc = "raised"
    /\ err = "KeyError"
    /\ DOMAIN predicted # {}

\* C9 (as claimed): no result is returned from a negative concentration.
NegativeConcentrationRejected ==
    Returned => \A p \in DOMAIN ret[1] : ret[1][p] >= 0

\* C10: the label of the health tip is the category of the same aqi.
TipMatchesCategory ==
    lpc = "tip" => TipLabel(ltip) = lcat

\* The tip for 101, the first value of a bucket, has been computed.
TipMatchesCategoryWitness ==
    lpc = "tip" /\ lq = 101 /\ TipLabel(ltip) = "Moderate"

====
